---- MODULE Spec2Model ----
(***************************************************************************)
(* Model of the UDP chat server of src/server.py.                          *)
(*                                                                         *)
(* Text is modelled as a sequence of one-character strings, so that         *)
(* split(' '), merge_str, ", ".join and the "\n"-terminated mailbox flush   *)
(* are computed character by character, as the Python code computes them.  *)
(* A sender address is <<ip, port>>; Python's sender_info[1] (the port) is  *)
(* sender_info[2] here, because TLA+ tuples are indexed from 1.             *)
(***************************************************************************)
EXTENDS Integers, Sequences, FiniteSets, TLC

VARIABLES
    chat_members,   \* server.py:318  the list of Member objects, in insertion order
    message,        \* server.py:320  the text of the datagram being handled
    sender_info,    \* server.py:320  the address <<ip, port>> it came from
    sent,           \* the datagrams s.sendto() sent while handling it: [data, to]
    departed,       \* history: ports whose last accepted Join/Leave was a Leave
    owner,          \* history: the addresses whose Join registered the current members
    dropped,        \* history: the mailbox a Leave handled last threw away
    fate,           \* transport: what became of the response sent last
    received,       \* client.py:10  the datagrams the clients' recvfrom returned
    lost            \* transport: the datagrams that never arrived

vars == <<chat_members, message, sender_info, sent, departed, owner, dropped, fate,
          received, lost>>

(***************************************************************************)
(* Bounds of the model.                                                    *)
(***************************************************************************)
\* At most MaxQueued notifications are queued in all mailboxes together.
MaxQueued == 2

Ports == {1, 2, 3}
Ips == {"10.0.0.1"}
Senders == Ips \X Ports

(***************************************************************************)
(* Text literals of the program.                                           *)
(***************************************************************************)
SP == " "
NL == "\n"
HAS_JOINED == <<" ", "h", "a", "s", " ", "j", "o", "i", "n", "e", "d">>
COLON_SP == <<":", " ">>
CHANGED_NAME == <<" ", "c", "h", "a", "n", "g", "e", "d", " ", "h", "i", "s", " ",
                  "n", "a", "m", "e", " ", "t", "o", " ">>
HAS_LEFT == <<" ", "h", "a", "s", " ", "l", "e", "f", "t", " ", "t", "h", "e", " ",
              "g", "r", "o", "u", "p">>
ILLEGAL == <<"I", "l", "l", "e", "g", "a", "l", " ", "r", "e", "q", "u", "e", "s", "t">>
SEPARATOR == <<",", " ">>
EMPTY == <<>>

(***************************************************************************)
(* The request texts the model sends: the empty datagram, an unrecognized  *)
(* code, Join and Rename with and without a payload (the names "" and      *)
(* "a"), Send with a payload, Leave and Poll.                              *)
(***************************************************************************)
Texts ==
    { <<>>, <<"9">>,
      <<"1">>, <<"1", " ", "a">>,
      <<"2", " ", "a">>,
      <<"3">>, <<"3", " ", "a">>,
      <<"4">>, <<"5">> }

(***************************************************************************)
(* Python's str.split(' '): cut at every single space; "" yields [""].     *)
(***************************************************************************)
RECURSIVE split(_)
split(s) ==
    IF \A i \in 1..Len(s) : s[i] # SP
    THEN <<s>>
    ELSE LET k == CHOOSE k \in 1..Len(s) : s[k] = SP /\ \A j \in 1..(k - 1) : s[j] # SP
         IN  <<SubSeq(s, 1, k - 1)>> \o split(SubSeq(s, k + 1, Len(s)))

\* Variant: the trailing space is not cut off.
DropLast_keep(s) == s

\* Python's s[:-1]: s without its last character ("" stays "").
DropLast(s) == IF Len(s) = 0 THEN s ELSE SubSeq(s, 1, Len(s) - 1)

\* The loop of merge_str: new_str += sub + " " for every sub.
RECURSIVE AppendEachWithSpace(_)
AppendEachWithSpace(subs) ==
    IF Len(subs) = 0 THEN EMPTY
    ELSE Head(subs) \o <<SP>> \o AppendEachWithSpace(Tail(subs))

merge_str(substr) == DropLast(AppendEachWithSpace(Tail(substr)))

\* Python's sep.join(list).
RECURSIVE join(_, _)
join(sep, list) ==
    IF Len(list) = 0 THEN EMPTY
    ELSE IF Len(list) = 1 THEN list[1]
    ELSE list[1] \o sep \o join(sep, Tail(list))

(***************************************************************************)
(* class Member                                                            *)
(***************************************************************************)
Member(name, port) == [name |-> name, port |-> port, pending_messages |-> <<>>]

add_message(m, msg) == [m EXCEPT !.pending_messages = Append(@, msg)]

clear_message_board(m) == [m EXCEPT !.pending_messages = <<>>]

(***************************************************************************)
(* Registry lookups.  find_member_by_info returns the index of the first   *)
(* member with the sender's port, 0 standing for Python's None.            *)
(***************************************************************************)
find_member_by_info(members, si) ==
    IF \E i \in 1..Len(members) : si[2] = members[i].port
    THEN CHOOSE i \in 1..Len(members) :
            /\ si[2] = members[i].port
            /\ \A j \in 1..(i - 1) : si[2] # members[j].port
    ELSE 0

\* Variant: the scan compares against nothing, so every port looks free.
is_port_available_always(members, si) == TRUE

is_port_available(members, si) ==
    \A i \in 1..Len(members) : members[i].port # si[2]

\* s.sendto(data, to) as a value.
Datagram(data, to) == [data |-> data, to |-> to]

\* What a handler leaves behind: the member list and the datagrams it sent.
Outcome(members, out) == [chat_members |-> members, sent |-> out]

RECURSIVE NamesExcept(_, _)
NamesExcept(members, idx) ==
    IF Len(members) = 0 THEN <<>>
    ELSE LET rest == NamesExcept(SubSeq(members, 1, Len(members) - 1), idx)
         IN  IF Len(members) # idx
             THEN Append(rest, members[Len(members)].name)
             ELSE rest

\* Variant: the sender's own name is not left out of the list.
display_other_members_with_self(si, members) ==
    IF Len(members) = 1 THEN EMPTY ELSE join(SEPARATOR, NamesExcept(members, 0))

display_other_members(si, members) ==
    LET member == find_member_by_info(members, si)
        name_list == NamesExcept(members, member)
    IN  IF Len(members) = 1 THEN EMPTY ELSE join(SEPARATOR, name_list)

\* Variant: the messages are joined by the separator, none after the last.
AppendEachWith_joined(msgs, ch) == join(<<ch>>, msgs)

\* The loop of refresh_messages: final_msg += msg + "\n" for every msg.
RECURSIVE AppendEachWith(_, _)
AppendEachWith(msgs, ch) ==
    IF Len(msgs) = 0 THEN EMPTY
    ELSE Head(msgs) \o <<ch>> \o AppendEachWith(Tail(msgs), ch)

\* Variant: the first member is removed, whichever member was found.
RemoveAt_first(list, idx) == Tail(list)

\* Python's list.remove of the object at index idx.
RemoveAt(list, idx) == SubSeq(list, 1, idx - 1) \o SubSeq(list, idx + 1, Len(list))

(***************************************************************************)
(* The command handlers.  Each returns the member list it leaves and the   *)
(* datagrams it sent.                                                      *)
(***************************************************************************)
\* for m in chat_members: m.add_message(msg)
RECURSIVE add_message_to_all(_, _)
add_message_to_all(members, msg) ==
    IF Len(members) = 0 THEN <<>>
    ELSE <<add_message(Head(members), msg)>> \o add_message_to_all(Tail(members), msg)

\* The loop of send_message: for m in chat_members: if m.name != name: m.add_message(..)
RECURSIVE send_to_others(_, _, _)
send_to_others(members, name, full_message) ==
    IF Len(members) = 0 THEN <<>>
    ELSE <<IF Head(members).name # name
           THEN add_message(Head(members), full_message)
           ELSE Head(members)>>
         \o send_to_others(Tail(members), name, full_message)

\* Variant: the notification is queued for every member, the sender included.
RECURSIVE rename_and_notify_all(_, _, _, _)
rename_and_notify_all(members, si, msg, new_name) ==
    IF Len(members) = 0 THEN <<>>
    ELSE <<IF si[2] # Head(members).port
           THEN add_message(Head(members), msg)
           ELSE add_message([Head(members) EXCEPT !.name = new_name], msg)>>
         \o rename_and_notify_all(Tail(members), si, msg, new_name)

\* Variant: the others are notified but the sender's entry keeps its name.
RECURSIVE rename_and_notify_keep_name(_, _, _, _)
rename_and_notify_keep_name(members, si, msg, new_name) ==
    IF Len(members) = 0 THEN <<>>
    ELSE <<IF si[2] # Head(members).port
           THEN add_message(Head(members), msg)
           ELSE Head(members)>>
         \o rename_and_notify_keep_name(Tail(members), si, msg, new_name)

\* The loop of change_name: notify the other ports, rename the sender's entry.
RECURSIVE rename_and_notify(_, _, _, _)
rename_and_notify(members, si, msg, new_name) ==
    IF Len(members) = 0 THEN <<>>
    ELSE <<IF si[2] # Head(members).port
           THEN add_message(Head(members), msg)
           ELSE [Head(members) EXCEPT !.name = new_name]>>
         \o rename_and_notify(Tail(members), si, msg, new_name)

\* Variant: the mailbox is sent but never cleared.
refresh_messages_no_clear(si, members) ==
    LET member == find_member_by_info(members, si)
        pending == members[member].pending_messages
    IN  Outcome(members, <<Datagram(AppendEachWith(pending, NL), si)>>)

\* Variant: only the first pending message is sent before the board is cleared.
refresh_messages_first_only(si, members) ==
    LET member == find_member_by_info(members, si)
        pending == members[member].pending_messages
    IN  IF Len(pending) = 0
        THEN Outcome(members, <<Datagram(EMPTY, si)>>)
        ELSE Outcome([members EXCEPT ![member] = clear_message_board(@)],
                     <<Datagram(pending[1] \o <<NL>>, si)>>)

\* Variant: with nothing pending the function returns before it sends.
refresh_messages_silent(si, members) ==
    LET member == find_member_by_info(members, si)
        pending == members[member].pending_messages
    IN  IF Len(pending) = 0
        THEN Outcome(members, <<>>)
        ELSE Outcome([members EXCEPT ![member] = clear_message_board(@)],
                     <<Datagram(AppendEachWith(pending, NL), si)>>)

refresh_messages(si, members) ==
    LET member == find_member_by_info(members, si)
        pending == members[member].pending_messages
        final_msg == AppendEachWith(pending, NL)
    IN  IF Len(pending) = 0
        THEN Outcome(members, <<Datagram(EMPTY, si)>>)
        ELSE Outcome([members EXCEPT ![member] = clear_message_board(@)],
                     <<Datagram(final_msg, si)>>)

\* Variant: the member is appended before the others are informed.
join_group_informs_joiner(substr, si, members) ==
    LET name == merge_str(substr)
        joined == Append(members, Member(name, si[2]))
        informed == add_message_to_all(joined, name \o HAS_JOINED)
    IN  Outcome(informed, <<Datagram(display_other_members(si, informed), si)>>)

join_group(substr, si, members) ==
    LET name == merge_str(substr)
        informed == add_message_to_all(members, name \o HAS_JOINED)
        joined == Append(informed, Member(name, si[2]))
        other_members == display_other_members(si, joined)
    IN  Outcome(joined, <<Datagram(other_members, si)>>)

send_message(substr, si, members) ==
    LET member == find_member_by_info(members, si)
        name == members[member].name
        full_message == name \o COLON_SP \o merge_str(substr)
        delivered == send_to_others(members, name, full_message)
    IN  refresh_messages(si, delivered)

change_name(substr, si, members) ==
    LET member == find_member_by_info(members, si)
        old_name == members[member].name
        new_name == merge_str(substr)
        msg == old_name \o CHANGED_NAME \o new_name
        renamed == rename_and_notify(members, si, msg, new_name)
    IN  refresh_messages(si, renamed)

\* Variant: the others are informed but the member is not removed.
leave_group_no_remove(si, members) ==
    LET member == find_member_by_info(members, si)
        name == members[member].name
        informed == add_message_to_all(members, name \o HAS_LEFT)
    IN  Outcome(informed, <<Datagram(EMPTY, si)>>)

\* Variant: the leaver's mailbox is flushed to it in the response.
leave_group_flush(si, members) ==
    LET member == find_member_by_info(members, si)
        name == members[member].name
        removed == RemoveAt(members, member)
        informed == add_message_to_all(removed, name \o HAS_LEFT)
    IN  Outcome(informed,
                <<Datagram(AppendEachWith(members[member].pending_messages, NL), si)>>)

leave_group(si, members) ==
    LET member == find_member_by_info(members, si)
        name == members[member].name
        removed == RemoveAt(members, member)
        informed == add_message_to_all(removed, name \o HAS_LEFT)
    IN  Outcome(informed, <<Datagram(EMPTY, si)>>)

\* Variant: the refusal is answered with the empty string.
illegal_request_empty(si, members) == Outcome(members, <<Datagram(EMPTY, si)>>)

illegal_request(si, members) == Outcome(members, <<Datagram(ILLEGAL, si)>>)

\* Variant: an unrecognized code from a member falls through to the refresh.
handle_message_default_poll(msg, si, members) ==
    LET substr == split(msg)
    IN  IF substr[1] = <<"1">>
        THEN IF ~is_port_available(members, si)
             THEN illegal_request(si, members)
             ELSE join_group(substr, si, members)
        ELSE IF is_port_available(members, si) THEN illegal_request(si, members)
        ELSE IF substr[1] = <<"2">> THEN send_message(substr, si, members)
        ELSE IF substr[1] = <<"3">> THEN change_name(substr, si, members)
        ELSE IF substr[1] = <<"4">> THEN leave_group(si, members)
        ELSE refresh_messages(si, members)

\* Variant: a request with an empty first token is dropped without an answer.
handle_message_skip_empty(msg, si, members) ==
    LET substr == split(msg)
    IN  IF substr[1] = <<>> THEN Outcome(members, <<>>)
        ELSE IF substr[1] = <<"1">>
        THEN IF ~is_port_available(members, si)
             THEN illegal_request(si, members)
             ELSE join_group(substr, si, members)
        ELSE IF is_port_available(members, si) THEN illegal_request(si, members)
        ELSE IF substr[1] = <<"2">> THEN send_message(substr, si, members)
        ELSE IF substr[1] = <<"3">> THEN change_name(substr, si, members)
        ELSE IF substr[1] = <<"4">> THEN leave_group(si, members)
        ELSE IF substr[1] = <<"5">> THEN refresh_messages(si, members)
        ELSE illegal_request(si, members)

\* Variant: a Join from a registered port is answered by refreshing its mailbox.
handle_message_rejoin(msg, si, members) ==
    LET substr == split(msg)
    IN  IF substr[1] = <<"1">>
        THEN IF ~is_port_available(members, si)
             THEN refresh_messages(si, members)
             ELSE join_group(substr, si, members)
        ELSE IF is_port_available(members, si) THEN illegal_request(si, members)
        ELSE IF substr[1] = <<"2">> THEN send_message(substr, si, members)
        ELSE IF substr[1] = <<"3">> THEN change_name(substr, si, members)
        ELSE IF substr[1] = <<"4">> THEN leave_group(si, members)
        ELSE IF substr[1] = <<"5">> THEN refresh_messages(si, members)
        ELSE illegal_request(si, members)

handle_message(msg, si, members) ==
    LET substr == split(msg)
    IN  IF substr[1] = <<"1">>
        THEN IF ~is_port_available(members, si)
             THEN illegal_request(si, members)
             ELSE join_group(substr, si, members)
        ELSE IF is_port_available(members, si) THEN illegal_request(si, members)
        ELSE IF substr[1] = <<"2">> THEN send_message(substr, si, members)
        ELSE IF substr[1] = <<"3">> THEN change_name(substr, si, members)
        ELSE IF substr[1] = <<"4">> THEN leave_group(si, members)
        ELSE IF substr[1] = <<"5">> THEN refresh_messages(si, members)
        ELSE illegal_request(si, members)

(***************************************************************************)
(* The server loop: receive one datagram, handle it to completion.         *)
(***************************************************************************)
Ports_of(members) == {members[i].port : i \in 1..Len(members)}

RECURSIVE Queued(_)
Queued(members) ==
    IF Len(members) = 0 THEN 0
    ELSE Len(Head(members).pending_messages) + Queued(Tail(members))

WithinBounds(members) == Queued(members) <= MaxQueued

\* The history of accepted Leaves and Joins.
Departed(msg, si, members, left) ==
    LET code == split(msg)[1]
    IN  IF code = <<"4">> /\ ~is_port_available(members, si) THEN left \cup {si[2]}
        ELSE IF code = <<"1">> /\ is_port_available(members, si) THEN left \ {si[2]}
        ELSE left

\* The addresses whose accepted Join created the members now registered.
Owner(msg, si, members, owners) ==
    LET code == split(msg)[1]
    IN  IF code = <<"1">> /\ is_port_available(members, si) THEN owners \cup {si}
        ELSE IF code = <<"4">> /\ ~is_port_available(members, si)
             THEN {a \in owners : a[2] # si[2]}
        ELSE owners

\* The pending_messages of the Member object that an accepted Leave removes.
Dropped(msg, si, members) ==
    IF split(msg)[1] = <<"4">> /\ ~is_port_available(members, si)
    THEN members[find_member_by_info(members, si)].pending_messages
    ELSE <<>>

Receive(msg, si) ==
    LET r == handle_message(msg, si, chat_members)
    IN  /\ WithinBounds(r.chat_members)
        /\ chat_members' = r.chat_members
        /\ sent' = r.sent
        /\ message' = msg
        /\ sender_info' = si
        /\ departed' = Departed(msg, si, chat_members, departed)
        /\ owner' = Owner(msg, si, chat_members, owner)
        /\ dropped' = Dropped(msg, si, chat_members)
        /\ fate' = IF r.sent = <<>> THEN "none" ELSE "in_flight"
        /\ UNCHANGED <<received, lost>>

Code(msg) == split(msg)[1]
CommandCodes == {<<"1">>, <<"2">>, <<"3">>, <<"4">>, <<"5">>}

RecvJoin == \E msg \in Texts, si \in Senders : Code(msg) = <<"1">> /\ Receive(msg, si)
RecvSend == \E msg \in Texts, si \in Senders : Code(msg) = <<"2">> /\ Receive(msg, si)
RecvRename == \E msg \in Texts, si \in Senders : Code(msg) = <<"3">> /\ Receive(msg, si)
RecvLeave == \E msg \in Texts, si \in Senders : Code(msg) = <<"4">> /\ Receive(msg, si)
RecvPoll == \E msg \in Texts, si \in Senders : Code(msg) = <<"5">> /\ Receive(msg, si)
RecvOther == \E msg \in Texts, si \in Senders : Code(msg) \notin CommandCodes /\ Receive(msg, si)

\* server.py:314-318: the socket is bound, the registry is empty, nothing received yet.
Init ==
    /\ chat_members = <<>>
    /\ message = EMPTY
    /\ sender_info = <<"", 0>>
    /\ sent = <<>>
    /\ departed = {}
    /\ owner = {}
    /\ dropped = <<>>
    /\ fate = "none"
    /\ received = <<>>
    /\ lost = <<>>

Next == RecvJoin \/ RecvSend \/ RecvRename \/ RecvLeave \/ RecvPoll \/ RecvOther

Spec == Init /\ [][Next]_vars

(***************************************************************************)
(* The same server reached from two hosts: two IPs use the same two ports,  *)
(* and the members are called Alice, Bob and Bobby.                        *)
(***************************************************************************)
ALICE == <<"A", "l", "i", "c", "e">>
BOB == <<"B", "o", "b">>
BOBBY == <<"B", "o", "b", "b", "y">>
HI == <<"h", "i">>

HostIps == {"10.0.0.1", "10.0.0.2"}
HostPorts == {1, 2}
HostSenders == HostIps \X HostPorts

HostTexts ==
    { <<"9">>,
      <<"1", " ">> \o ALICE, <<"1", " ">> \o BOB,
      <<"2", " ">> \o HI,
      <<"3", " ">> \o BOBBY,
      <<"4">>, <<"5">> }

HostsNext == \E msg \in HostTexts, si \in HostSenders : Receive(msg, si)

SpecHosts == Init /\ [][HostsNext]_vars

(***************************************************************************)
(* The codec under every payload.  A speaker on port 1 sends Join and Send *)
(* requests whose payload is any text of spaces and letters up to          *)
(* MaxPayload characters (empty, leading, trailing, consecutive spaces),   *)
(* and the bare codes without any space; a listener on port 2, named "b",  *)
(* joins and polls, so that what the speaker sends shows in its mailbox.   *)
(***************************************************************************)
MaxPayload == 2
\* At most CodecQueued notifications are queued while the codec is exercised.
CodecQueued == 1

RECURSIVE TextsOver(_, _)
TextsOver(chars, n) ==
    IF n = 0 THEN {<<>>}
    ELSE LET shorter == TextsOver(chars, n - 1)
         IN  shorter \cup {Append(t, c) : t \in shorter, c \in chars}

PayloadChars == {" ", "a"}
CodecPayloads == TextsOver(PayloadChars, MaxPayload)
CodecCodes == {<<"1">>, <<"2">>}
CodecTexts == CodecCodes \cup {c \o <<" ">> \o pl : c \in CodecCodes, pl \in CodecPayloads}
ListenerTexts == {<<"1", " ", "b">>, <<"5">>}
Speaker == <<"10.0.0.1", 1>>
Listener == <<"10.0.0.1", 2>>

SpeakerRecv ==
    \E msg \in CodecTexts : Receive(msg, Speaker) /\ Queued(chat_members') <= CodecQueued

ListenerRecv ==
    \E msg \in ListenerTexts : Receive(msg, Listener) /\ Queued(chat_members') <= CodecQueued

CodecNext == SpeakerRecv \/ ListenerRecv

SpecCodec == Init /\ [][CodecNext]_vars

(***************************************************************************)
(* The server behind a transport that may drop datagrams.  UDP gives the   *)
(* server no acknowledgement: s.sendto() returns, and the response either  *)
(* reaches the client's recvfrom or is lost.  The fate of a response is    *)
(* decided before the next request is handled; a client whose response was *)
(* lost may send again.                                                    *)
(***************************************************************************)
\* At most MaxTransported responses are delivered or lost.
MaxTransported == 4

LossyTexts == {<<"1", " ", "a">>, <<"2", " ", "a">>, <<"3", " ", "c">>, <<"5">>}
ListenerName == <<"1", " ", "b">>
LossySenders == Ips \X {1, 2}

\* The server handles the next request.
LossyRecv ==
    /\ fate # "in_flight"
    /\ Len(received) + Len(lost) < MaxTransported
    /\ \E msg \in LossyTexts \cup {ListenerName}, si \in LossySenders :
          /\ msg = ListenerName => si[2] = 2
          /\ Receive(msg, si)

\* client.py:10-11: the client's recvfrom returns the response.
Deliver ==
    /\ fate = "in_flight"
    /\ fate' = "delivered"
    /\ received' = received \o sent
    /\ UNCHANGED <<chat_members, message, sender_info, sent, departed, owner, dropped, lost>>

\* The response is lost on the way; neither the server nor the client sees it.
Drop ==
    /\ fate = "in_flight"
    /\ fate' = "dropped"
    /\ lost' = lost \o sent
    /\ UNCHANGED <<chat_members, message, sender_info, sent, departed, owner, dropped, received>>

LossyNext == LossyRecv \/ Deliver \/ Drop

SpecLossy == Init /\ [][LossyNext]_vars


(***************************************************************************)
(* Vocabulary of the properties.                                           *)
(***************************************************************************)
JOIN == <<"1">>
SEND == <<"2">>
RENAME == <<"3">>
LEAVE == <<"4">>
POLL == <<"5">>

\* The member registered under port p.
MemberAt(members, p) == members[CHOOSE i \in 1..Len(members) : members[i].port = p]

Mailbox(members, p) == MemberAt(members, p).pending_messages

IsPrefix(a, b) == Len(a) <= Len(b) /\ SubSeq(b, 1, Len(a)) = a

\* The payload of a request text: what follows the first space.
Payload(msg) == merge_str(split(msg))

\* The display names the request texts can produce.
Names == {Payload(t) : t \in {u \in Texts : Code(u) \in {JOIN, RENAME}}}

\* The request was answered with the refusal, and with nothing else.
Refused(out, si) == out = <<[data |-> ILLEGAL, to |-> si]>>

\* A response text read back as its newline-terminated lines.
RECURSIVE LinesOf(_)
LinesOf(t) ==
    IF Len(t) = 0 THEN <<>>
    ELSE IF \A i \in 1..Len(t) : t[i] # NL THEN <<t>>
    ELSE LET k == CHOOSE k \in 1..Len(t) : t[k] = NL /\ \A j \in 1..(k - 1) : t[j] # NL
         IN  <<SubSeq(t, 1, k - 1)>> \o LinesOf(SubSeq(t, k + 1, Len(t)))

\* How many times x occurs in the sequence q.
Count(x, q) == Cardinality({i \in 1..Len(q) : q[i] = x})

(***************************************************************************)
(* C1  Uniqueness of the address key.                                      *)
(***************************************************************************)
\* C1: in every reachable state no two members of the registry have the same port.
C1_UniquePorts ==
    \A i, j \in 1..Len(chat_members) :
        i # j => chat_members[i].port # chat_members[j].port

\* All three ports are registered and a further Join has just been refused.
C1_Witness ==
    /\ Len(chat_members) = 3
    /\ Code(message) = JOIN
    /\ Refused(sent, sender_info)

(***************************************************************************)
(* C2  A Join from a registered address.                                   *)
(***************************************************************************)
\* C2: a Join from a port that is already registered is answered "Illegal request"
\* and leaves the member list (order, names, every mailbox) as it was.
C2_RejoinRefused ==
    [][ (Code(message') = JOIN /\ sender_info'[2] \in Ports_of(chat_members))
        => /\ Refused(sent', sender_info')
           /\ chat_members' = chat_members ]_vars

\* A refused Join whose sender still has notifications queued.
C2_Witness ==
    /\ Code(message) = JOIN
    /\ Refused(sent, sender_info)
    /\ sender_info[2] \in Ports_of(chat_members)
    /\ Mailbox(chat_members, sender_info[2]) # <<>>

(***************************************************************************)
(* C3  Requests from an unregistered address.                              *)
(***************************************************************************)
\* C3: a request whose code is not Join, from a port that is not registered, is
\* answered "Illegal request" and leaves the member list as it was.
C3_UnregisteredRefused ==
    [][ (Code(message') # JOIN /\ sender_info'[2] \notin Ports_of(chat_members))
        => /\ Refused(sent', sender_info')
           /\ chat_members' = chat_members ]_vars

\* A Send, Rename, Leave or Poll from an unregistered port was refused while
\* other members, one with a queued notification, are registered.
C3_Witness ==
    /\ Code(message) \in {SEND, RENAME, LEAVE, POLL}
    /\ sender_info[2] \notin Ports_of(chat_members)
    /\ Refused(sent, sender_info)
    /\ \E i \in 1..Len(chat_members) : chat_members[i].pending_messages # <<>>

(***************************************************************************)
(* C4  The mailbox is drained exactly once.                                *)
(***************************************************************************)
\* C4: for a member that stays registered over a step, either the step is its own
\* Send, Rename or Poll, whose single response carries exactly the notifications
\* queued before it, in queue order, and leaves its mailbox empty; or the step
\* removes nothing from its mailbox (what was queued stays queued, in order, as a
\* prefix of the mailbox).
C4_DrainedOnce ==
    [][ \A p \in Ports_of(chat_members) \cap Ports_of(chat_members') :
          LET before == Mailbox(chat_members, p)
              after == Mailbox(chat_members', p)
          IN  IF sender_info'[2] = p /\ Code(message') \in {SEND, RENAME, POLL}
              THEN /\ Len(sent') = 1
                   /\ sent'[1].to = sender_info'
                   /\ LinesOf(sent'[1].data) = before
                   /\ after = <<>>
              ELSE IsPrefix(before, after) ]_vars

\* A Poll has just returned two notifications and left the mailbox empty.
C4_Witness ==
    /\ Code(message) = POLL
    /\ sender_info[2] \in Ports_of(chat_members)
    /\ Len(sent) = 1
    /\ Len(LinesOf(sent[1].data)) = 2
    /\ Mailbox(chat_members, sender_info[2]) = <<>>

(***************************************************************************)
(* C5  A Send reaches every other member.                                  *)
(***************************************************************************)
\* C5: a Send from a registered member appends "<sender name>: <message>" to the
\* mailbox of every member whose port differs from the sender's, whatever its
\* display name.
C5_SendReachesEveryOther ==
    [][ (Code(message') = SEND /\ sender_info'[2] \in Ports_of(chat_members))
        => LET p == sender_info'[2]
               line == MemberAt(chat_members, p).name \o <<":", " ">> \o Payload(message')
           IN  \A q \in Ports_of(chat_members) \ {p} :
                   Mailbox(chat_members', q) = Append(Mailbox(chat_members, q), line) ]_vars

(***************************************************************************)
(* C6  Self-exclusion.                                                     *)
(***************************************************************************)
\* C6: the response to a member's own Send or Rename holds the line that request
\* produces only as often as that line was already queued for the member before
\* the request, and the member's mailbox is empty after it.
C6_SelfExclusion ==
    [][ (Code(message') \in {SEND, RENAME} /\ sender_info'[2] \in Ports_of(chat_members))
        => LET p == sender_info'[2]
               me == MemberAt(chat_members, p)
               own == IF Code(message') = SEND
                      THEN me.name \o <<":", " ">> \o Payload(message')
                      ELSE me.name \o CHANGED_NAME \o Payload(message')
           IN  /\ Len(sent') = 1
               /\ Count(own, LinesOf(sent'[1].data)) = Count(own, me.pending_messages)
               /\ Mailbox(chat_members', p) = <<>> ]_vars

\* A Rename has queued its notification for another member, while the response
\* to the renaming member carried earlier notifications and its mailbox is empty.
C6_Witness ==
    /\ Code(message) = RENAME
    /\ sender_info[2] \in Ports_of(chat_members)
    /\ Len(sent) = 1 /\ sent[1].data # EMPTY /\ sent[1].data # ILLEGAL
    /\ Mailbox(chat_members, sender_info[2]) = <<>>
    /\ \E q \in Ports_of(chat_members) \ {sender_info[2]}, old \in Names :
          LET box == Mailbox(chat_members, q)
          IN  /\ box # <<>>
              /\ box[Len(box)] = old \o CHANGED_NAME \o Payload(message)

(***************************************************************************)
(* C7  Leave finality.                                                     *)
(***************************************************************************)
\* C7: an accepted Leave from a port unregisters it; from then until a Join from
\* that port is handled, the port stays unregistered, every other request from it
\* is answered "Illegal request" and changes nothing, and a Join from it registers
\* a new member under that port and is not answered "Illegal request".
C7_LeaveFinality ==
    [][ /\ (Code(message') = LEAVE /\ sender_info'[2] \in Ports_of(chat_members))
           => /\ sender_info'[2] \in departed'
              /\ sender_info'[2] \notin Ports_of(chat_members')
        /\ \A p \in departed :
              /\ p \notin Ports_of(chat_members)
              /\ IF sender_info'[2] = p
                 THEN IF Code(message') = JOIN
                      THEN /\ Len(chat_members') = Len(chat_members) + 1
                           /\ chat_members'[Len(chat_members')].port = p
                           /\ chat_members'[Len(chat_members')].name = Payload(message')
                           /\ ~Refused(sent', sender_info')
                      ELSE /\ Refused(sent', sender_info')
                           /\ chat_members' = chat_members
                           /\ p \in departed'
                 ELSE /\ p \in departed'
                      /\ p \notin Ports_of(chat_members') ]_vars

\* A port that left and has not joined again has just had a Send, Rename, Leave
\* or Poll refused.
C7_Witness ==
    /\ sender_info[2] \in departed
    /\ Code(message) \in {SEND, RENAME, LEAVE, POLL}
    /\ Refused(sent, sender_info)

(***************************************************************************)
(* C8  The response to a Join.                                             *)
(***************************************************************************)
\* The names of the members other than the one at port p, in registry order.
RECURSIVE OtherNames(_, _)
OtherNames(members, p) ==
    IF Len(members) = 0 THEN <<>>
    ELSE IF Head(members).port = p THEN OtherNames(Tail(members), p)
    ELSE <<Head(members).name>> \o OtherNames(Tail(members), p)

\* names[1] ", " names[2] ", " ... names[n]
RECURSIVE CommaJoined(_)
CommaJoined(names) ==
    IF Len(names) = 0 THEN <<>>
    ELSE IF Len(names) = 1 THEN names[1]
    ELSE CommaJoined(SubSeq(names, 1, Len(names) - 1)) \o <<",", " ">> \o names[Len(names)]

JoinAccepted(msg, si, members) == Code(msg) = JOIN /\ si[2] \notin Ports_of(members)

\* C8 as stated: the response to an accepted Join is the other members' names in
\* registry order joined by ", ", and it is empty exactly when the joiner is the
\* only member.
C8_JoinResponseEmptyIffAlone ==
    [][ JoinAccepted(message', sender_info', chat_members)
        => /\ Len(sent') = 1
           /\ sent'[1].data = CommaJoined(OtherNames(chat_members', sender_info'[2]))
           /\ (sent'[1].data = EMPTY <=> Len(chat_members') = 1) ]_vars

\* C8 amended: the response to an accepted Join is the other members' names in
\* registry order joined by ", "; it is empty exactly when the joiner is the only
\* member or the only other member has the empty name.
C8_JoinResponse ==
    [][ JoinAccepted(message', sender_info', chat_members)
        => /\ Len(sent') = 1
           /\ sent'[1].to = sender_info'
           /\ sent'[1].data = CommaJoined(OtherNames(chat_members', sender_info'[2]))
           /\ (sent'[1].data = EMPTY <=>
                  \/ Len(chat_members') = 1
                  \/ /\ Len(chat_members') = 2
                     /\ OtherNames(chat_members', sender_info'[2]) = <<EMPTY>>) ]_vars

\* A third member has just joined and was told the two differing names before it,
\* in registry order.
C8_Witness ==
    /\ Code(message) = JOIN
    /\ Len(chat_members) = 3
    /\ chat_members[3].port = sender_info[2]
    /\ chat_members[1].name # chat_members[2].name
    /\ sent = <<[data |-> chat_members[1].name \o <<",", " ">> \o chat_members[2].name,
                 to |-> sender_info]>>

(***************************************************************************)
(* C9  The notification of a Join.                                         *)
(***************************************************************************)
\* C9: an accepted Join with name N appends "N has joined" once to the mailbox of
\* every member registered before it and changes nothing else of them; the new
\* member is last in the registry with name N and an empty mailbox; a Poll from
\* the joiner handled right after its Join is answered with the empty string.
C9_JoinNotifies ==
    [][ /\ JoinAccepted(message', sender_info', chat_members)
           => LET n == Len(chat_members)
                  N == Payload(message')
              IN  /\ Len(chat_members') = n + 1
                  /\ \A i \in 1..n :
                        chat_members'[i] =
                            [chat_members[i] EXCEPT
                                !.pending_messages = Append(@, N \o HAS_JOINED)]
                  /\ chat_members'[n + 1] =
                        [name |-> N, port |-> sender_info'[2], pending_messages |-> <<>>]
        /\ ( /\ Code(message) = JOIN
             /\ sent # <<>> /\ ~Refused(sent, sender_info)
             /\ Code(message') = POLL
             /\ sender_info'[2] = sender_info[2] )
           => sent' = <<[data |-> EMPTY, to |-> sender_info']>> ]_vars

\* A third member has just joined with an empty mailbox and both earlier members
\* have its join notification last in their mailboxes.
C9_Witness ==
    /\ Code(message) = JOIN
    /\ Len(chat_members) = 3
    /\ chat_members[3].port = sender_info[2]
    /\ chat_members[3].pending_messages = <<>>
    /\ \A i \in {1, 2} :
          LET box == chat_members[i].pending_messages
          IN  box # <<>> /\ box[Len(box)] = Payload(message) \o HAS_JOINED

(***************************************************************************)
(* C10  Rename.                                                            *)
(***************************************************************************)
\* C10: a Rename to NEW by the member named OLD appends "OLD changed his name to
\* NEW" to every other member's mailbox and sets its name to NEW; a member's name
\* changes in no other step; and what a Send, Rename or Leave queues for others
\* carries the sender's name as registered when the request arrives.
C10_Rename ==
    [][ \A p \in Ports_of(chat_members) :
          LET me == MemberAt(chat_members, p)
              others == Ports_of(chat_members) \ {p}
              mine == sender_info'[2] = p
          IN  /\ (mine /\ Code(message') = RENAME)
                 => /\ MemberAt(chat_members', p).name = Payload(message')
                    /\ \A q \in others :
                          Mailbox(chat_members', q) =
                              Append(Mailbox(chat_members, q),
                                     me.name \o CHANGED_NAME \o Payload(message'))
              /\ (mine /\ Code(message') = SEND)
                 => \A q \in others :
                       LET line == me.name \o <<":", " ">> \o Payload(message')
                       IN  /\ Mailbox(chat_members', q) \in
                                {Mailbox(chat_members, q),
                                 Append(Mailbox(chat_members, q), line)}
                           /\ MemberAt(chat_members, q).name # me.name
                              => Mailbox(chat_members', q) =
                                     Append(Mailbox(chat_members, q), line)
              /\ (mine /\ Code(message') = LEAVE)
                 => \A q \in others :
                       Mailbox(chat_members', q) =
                           Append(Mailbox(chat_members, q), me.name \o HAS_LEFT)
              /\ (p \in Ports_of(chat_members') /\ ~(mine /\ Code(message') = RENAME))
                 => MemberAt(chat_members', p).name = me.name ]_vars

\* A member renamed itself and then sent a message: another member's mailbox holds
\* the rename notification followed by the message under the new name.
C10_Witness ==
    /\ Code(message) = SEND
    /\ sender_info[2] \in Ports_of(chat_members)
    /\ \E q \in Ports_of(chat_members) \ {sender_info[2]}, old \in Names :
          LET new == MemberAt(chat_members, sender_info[2]).name
          IN  /\ old # new
              /\ Mailbox(chat_members, q) =
                     << old \o CHANGED_NAME \o new,
                        new \o <<":", " ">> \o Payload(message) >>

(***************************************************************************)
(* C11  Leave.                                                             *)
(***************************************************************************)
\* The members other than the one at port p, in registry order.
RECURSIVE WithoutPort(_, _)
WithoutPort(members, p) ==
    IF Len(members) = 0 THEN <<>>
    ELSE IF Head(members).port = p THEN WithoutPort(Tail(members), p)
    ELSE <<Head(members)>> \o WithoutPort(Tail(members), p)

\* C11: a Leave from the registered member named N is answered with the empty
\* string; it leaves the other members in their order, each unchanged but for
\* "N has left the group" appended once to its mailbox, and no member at the
\* leaver's port.
C11_Leave ==
    [][ (Code(message') = LEAVE /\ sender_info'[2] \in Ports_of(chat_members))
        => LET p == sender_info'[2]
               N == MemberAt(chat_members, p).name
               rest == WithoutPort(chat_members, p)
           IN  /\ Len(rest) = Len(chat_members) - 1
               /\ Len(chat_members') = Len(rest)
               /\ \A i \in 1..Len(rest) :
                     chat_members'[i] =
                         [rest[i] EXCEPT !.pending_messages = Append(@, N \o HAS_LEFT)]
               /\ sent' = <<[data |-> EMPTY, to |-> sender_info']>> ]_vars

\* A member has just left a registry of three: the two that remain have differing
\* names and both have the same leave notification last in their mailboxes.
C11_Witness ==
    /\ Code(message) = LEAVE
    /\ sent = <<[data |-> EMPTY, to |-> sender_info]>>
    /\ sender_info[2] \in departed
    /\ Len(chat_members) = 2
    /\ chat_members[1].name # chat_members[2].name
    /\ \E N \in Names :
          \A i \in {1, 2} :
              LET box == chat_members[i].pending_messages
              IN  box # <<>> /\ box[Len(box)] = N \o HAS_LEFT

(***************************************************************************)
(* C12  What is queued for a leaving member is discarded.                  *)
(***************************************************************************)
\* C12: an accepted Leave is answered with the empty string whatever is queued for
\* the leaver, removes the leaver's mailbox with it and moves nothing of it into
\* another mailbox; a member joining later starts with an empty mailbox; and the
\* only notifications any response carries are those queued, when the request
\* arrives, for the registered member the request comes from.
C12_QueuedAtLeaveDiscarded ==
    [][ LET p == sender_info'[2]
            registered == p \in Ports_of(chat_members)
        IN  /\ Len(sent') = 1
            /\ (Code(message') = LEAVE /\ registered)
               => /\ dropped' = Mailbox(chat_members, p)
                  /\ sent'[1].data = EMPTY
                  /\ p \notin Ports_of(chat_members')
                  /\ \A q \in Ports_of(chat_members) \ {p} :
                        Mailbox(chat_members', q) =
                            Append(Mailbox(chat_members, q),
                                   MemberAt(chat_members, p).name \o HAS_LEFT)
            /\ JoinAccepted(message', sender_info', chat_members)
               => Mailbox(chat_members', p) = <<>>
            /\ IF registered /\ Code(message') \in {SEND, RENAME, POLL}
               THEN LinesOf(sent'[1].data) = Mailbox(chat_members, p)
               ELSE IF JoinAccepted(message', sender_info', chat_members)
               THEN sent'[1].data = CommaJoined(OtherNames(chat_members', p))
               ELSE sent'[1].data \in {EMPTY, ILLEGAL} ]_vars

\* A Leave has just been answered with the empty string while two notifications
\* were queued for the leaver.
C12_Witness ==
    /\ Code(message) = LEAVE
    /\ Len(dropped) = 2
    /\ sent = <<[data |-> EMPTY, to |-> sender_info]>>
    /\ sender_info[2] \notin Ports_of(chat_members)

(***************************************************************************)
(* C13  One response per request.                                          *)
(***************************************************************************)
\* C13: once a request has been handled, whatever its code and whether or not its
\* sender is registered, the server has sent exactly one datagram for it, and that
\* datagram is addressed to the address (IP and port) the request came from.
C13_OneResponse ==
    sender_info \in HostSenders \cup Senders
        => /\ Len(sent) = 1
           /\ sent[1].to = sender_info

\* A Poll with nothing pending has been answered with one empty datagram, sent to
\* a host other than the one the member joined from.
C13_Witness ==
    /\ Code(message) = POLL
    /\ sender_info[2] \in Ports_of(chat_members)
    /\ sender_info \notin owner
    /\ sent = <<[data |-> EMPTY, to |-> sender_info]>>

(***************************************************************************)
(* C14  Scenario 1.                                                        *)
(***************************************************************************)
AliceAlone == <<[name |-> ALICE, port |-> 1, pending_messages |-> <<>>]>>

AliceAndBob(queued) ==
    << [name |-> ALICE, port |-> 1, pending_messages |-> queued],
       [name |-> BOB, port |-> 2, pending_messages |-> <<>>] >>

Scenario1(third_response) ==
        /\ ( /\ chat_members = <<>>
             /\ message' = <<"1", " ">> \o ALICE /\ sender_info'[2] = 1 )
           => /\ sent' = <<[data |-> EMPTY, to |-> sender_info']>>
              /\ chat_members' = AliceAlone
        /\ ( /\ chat_members = AliceAlone
             /\ message' = <<"1", " ">> \o BOB /\ sender_info'[2] = 2 )
           => /\ sent' = <<[data |-> ALICE, to |-> sender_info']>>
              /\ chat_members' = AliceAndBob(<<BOB \o HAS_JOINED>>)
        /\ ( /\ chat_members = AliceAndBob(<<BOB \o HAS_JOINED>>)
             /\ message' = <<"5">> /\ sender_info'[2] = 1 )
           => /\ sent' = <<[data |-> third_response, to |-> sender_info']>>
              /\ chat_members' = AliceAndBob(<<>>)

\* C14 as stated: from the empty registry, Join("Alice") from port 1 is answered
\* "", then Join("Bob") from port 2 is answered "Alice", then Poll from port 1 is
\* answered with exactly "Bob has joined".
C14_Scenario1AsStated == [][Scenario1(BOB \o HAS_JOINED)]_vars

\* C14 amended: ... then Poll from port 1 is answered with "Bob has joined"
\* followed by one newline character.
C14_Scenario1 == [][Scenario1(BOB \o HAS_JOINED \o <<NL>>)]_vars

\* The Poll of the scenario has just been answered.
C14_Witness ==
    /\ message = <<"5">>
    /\ sender_info[2] = 1
    /\ chat_members = AliceAndBob(<<>>)
    /\ Len(sent) = 1
    /\ LinesOf(sent[1].data) = <<BOB \o HAS_JOINED>>

(***************************************************************************)
(* C19  Identity is the port alone.                                        *)
(***************************************************************************)
\* C19: for an address a whose Join registered a member, and a request from another
\* address with the same port: a Join is answered "Illegal request" and changes
\* nothing; a Poll, Send or Rename is answered, at the other address, with the
\* notifications queued for a's member, whose mailbox is left empty; a Send is
\* delivered under that member's name; a Rename renames that member; a Leave
\* removes that member and is answered with the empty string at the other address.
C19_IdentityIsPort ==
    [][ \A a \in owner :
          (sender_info'[2] = a[2] /\ sender_info' # a)
          => LET p == a[2]
                 me == MemberAt(chat_members, p)
                 code == Code(message')
             IN  /\ p \in Ports_of(chat_members)
                 /\ Len(sent') = 1
                 /\ sent'[1].to = sender_info'
                 /\ code = JOIN
                    => /\ sent'[1].data = ILLEGAL
                       /\ chat_members' = chat_members
                 /\ code \in {SEND, RENAME, POLL}
                    => /\ LinesOf(sent'[1].data) = me.pending_messages
                       /\ Mailbox(chat_members', p) = <<>>
                 /\ code = SEND
                    => \A q \in Ports_of(chat_members) \ {p} :
                          MemberAt(chat_members, q).name # me.name
                          => Mailbox(chat_members', q) =
                                 Append(Mailbox(chat_members, q),
                                        me.name \o <<":", " ">> \o Payload(message'))
                 /\ code = RENAME
                    => MemberAt(chat_members', p).name = Payload(message')
                 /\ code = LEAVE
                    => /\ p \notin Ports_of(chat_members')
                       /\ sent'[1].data = EMPTY
                       /\ \A q \in Ports_of(chat_members) \ {p} :
                             Mailbox(chat_members', q) =
                                 Append(Mailbox(chat_members, q), me.name \o HAS_LEFT) ]_vars

\* A Poll from a host that never joined has just been answered with the
\* notification queued for the member another host registered on the same port.
C19_Witness ==
    /\ Code(message) = POLL
    /\ sender_info \notin owner
    /\ \E a \in owner : a[2] = sender_info[2] /\ a[1] # sender_info[1]
    /\ Len(sent) = 1
    /\ sent[1].to = sender_info
    /\ Len(LinesOf(sent[1].data)) >= 1

(***************************************************************************)
(* C15  An unrecognized code from a member.                                *)
(***************************************************************************)
\* C15: a request from a registered member whose first token is none of "1".."5"
\* is answered "Illegal request" and leaves the member list, names and mailboxes
\* (the sender's included) as they were; a Send, Rename or Poll of that member
\* handled next is answered with everything that was queued for it.
C15_UnrecognizedRefused ==
    [][ /\ (Code(message') \notin CommandCodes /\ sender_info'[2] \in Ports_of(chat_members))
           => /\ Refused(sent', sender_info')
              /\ chat_members' = chat_members
        /\ ( /\ Code(message) \notin CommandCodes
             /\ sender_info[2] \in Ports_of(chat_members)
             /\ sender_info'[2] = sender_info[2]
             /\ Code(message') \in {SEND, RENAME, POLL} )
           => /\ Len(sent') = 1
              /\ LinesOf(sent'[1].data) = Mailbox(chat_members, sender_info[2]) ]_vars

\* A member with two notifications queued has just had an unrecognized code
\* refused, and the two are still queued.
C15_Witness ==
    /\ Code(message) \notin CommandCodes
    /\ sender_info[2] \in Ports_of(chat_members)
    /\ Refused(sent, sender_info)
    /\ Len(Mailbox(chat_members, sender_info[2])) = 2

(***************************************************************************)
(* C16  The format of a flushed mailbox.                                   *)
(***************************************************************************)
\* Every notification followed by one newline, in queue order.
RECURSIVE Terminated(_)
Terminated(q) ==
    IF Len(q) = 0 THEN <<>>
    ELSE Terminated(SubSeq(q, 1, Len(q) - 1)) \o q[Len(q)] \o <<"\n">>

\* C16: the response to a Send, Rename or Poll of a registered member is the empty
\* string when nothing is queued for it, and otherwise every queued notification,
\* in queue order, each followed by one newline (so it ends with a newline).
C16_FlushFormat ==
    [][ (Code(message') \in {SEND, RENAME, POLL} /\ sender_info'[2] \in Ports_of(chat_members))
        => LET queue == Mailbox(chat_members, sender_info'[2])
           IN  /\ Len(sent') = 1
               /\ sent'[1].data = Terminated(queue)
               /\ queue = <<>> => sent'[1].data = EMPTY
               /\ queue # <<>> => sent'[1].data[Len(sent'[1].data)] = "\n" ]_vars

\* A Send has just been answered with two notifications, the response ending with
\* a newline.
C16_Witness ==
    /\ Code(message) = SEND
    /\ sender_info[2] \in Ports_of(chat_members)
    /\ Len(sent) = 1
    /\ Len(LinesOf(sent[1].data)) = 2
    /\ sent[1].data[Len(sent[1].data)] = "\n"

(***************************************************************************)
(* C17  The empty datagram.                                                *)
(***************************************************************************)
\* C17 as stated: a request whose text is empty is not answered with "Illegal
\* request" (the server fails on it instead of answering).
C17_EmptyDatagramUnanswered ==
    [][ message' = EMPTY => ~Refused(sent', sender_info') ]_vars

\* C17 amended: the empty text splits into the one token "", never into an empty
\* token list; the request is answered "Illegal request", from a registered and
\* from an unregistered sender alike, and changes nothing; the server goes on to
\* handle the next request, which finds the registry as it was.
C17_EmptyDatagramRefused ==
    [][ /\ message' = EMPTY
           => /\ split(message') = <<EMPTY>>
              /\ Refused(sent', sender_info')
              /\ chat_members' = chat_members
        /\ (message = EMPTY /\ sent # <<>>)
           => /\ Len(sent') = 1
              /\ sent'[1].to = sender_info'
              /\ JoinAccepted(message', sender_info', chat_members)
                 => sender_info'[2] \in Ports_of(chat_members')
              /\ (Code(message') = POLL /\ sender_info'[2] \in Ports_of(chat_members))
                 => LinesOf(sent'[1].data) = Mailbox(chat_members, sender_info'[2]) ]_vars

\* An empty datagram from a member with a queued notification has just been
\* answered "Illegal request".
C17_Witness ==
    /\ message = EMPTY
    /\ sender_info[2] \in Ports_of(chat_members)
    /\ Refused(sent, sender_info)
    /\ Mailbox(chat_members, sender_info[2]) # <<>>

(***************************************************************************)
(* C18  Decoding then merging is a round trip on the payload.              *)
(***************************************************************************)
\* What follows the first space of a text; the empty text when it has no space.
AfterFirstSpace(t) ==
    IF \A i \in 1..Len(t) : t[i] # " " THEN <<>>
    ELSE LET k == CHOOSE k \in 1..Len(t) : t[k] = " " /\ \A j \in 1..(k - 1) : t[j] # " "
         IN  SubSeq(t, k + 1, Len(t))

\* C18: the name an accepted Join registers, and the message a Send delivers, is
\* exactly the request text after its first space (with its leading, trailing and
\* consecutive spaces), and the empty text when the request has no space.
C18_RoundTrip ==
    LET p == sender_info[2]
    IN  /\ ( /\ Code(message) = JOIN
             /\ sent # <<>> /\ ~Refused(sent, sender_info) )
           => /\ p \in Ports_of(chat_members)
              /\ MemberAt(chat_members, p).name = AfterFirstSpace(message)
        /\ (Code(message) = SEND /\ p \in Ports_of(chat_members))
           => \A q \in Ports_of(chat_members) \ {p} :
                 LET box == Mailbox(chat_members, q)
                     me == MemberAt(chat_members, p)
                 IN  MemberAt(chat_members, q).name # me.name
                     => /\ box # <<>>
                        /\ box[Len(box)] =
                               me.name \o <<":", " ">> \o AfterFirstSpace(message)

\* A Send whose payload is two spaces has been delivered to the listener under a
\* name that ends with a space.
C18_Witness ==
    /\ message = <<"2", " ", " ", " ">>
    /\ sender_info = Speaker
    /\ Speaker[2] \in Ports_of(chat_members)
    /\ Listener[2] \in Ports_of(chat_members)
    /\ MemberAt(chat_members, Speaker[2]).name = <<"a", " ">>
    /\ Mailbox(chat_members, Listener[2]) =
           << <<"a", " ">> \o <<":", " ">> \o <<" ", " ">> >>

(***************************************************************************)
(* C20  A response lost on the way is not sent again.                      *)
(***************************************************************************)
\* The notifications the datagrams of a log carried to a port.
RECURSIVE LinesTo(_, _)
LinesTo(log, p) ==
    IF Len(log) = 0 THEN <<>>
    ELSE LinesTo(SubSeq(log, 1, Len(log) - 1), p)
         \o (IF log[Len(log)].to[2] = p THEN LinesOf(log[Len(log)].data) ELSE <<>>)

\* C20: the response to a Send, Rename or Poll of a registered member carries the
\* whole mailbox, which is empty as soon as the response is sent, whatever becomes
\* of the response; when the response is lost the server's state stays as it is
\* and no client receives anything; the server sends only when it handles a
\* request, the clients receive only what was sent and not lost, and what was
\* lost stays lost.
C20_LostIsNotResent ==
    [][ /\ ( /\ fate' = "in_flight"
             /\ Code(message') \in {SEND, RENAME, POLL}
             /\ sender_info'[2] \in Ports_of(chat_members) )
           => /\ Len(sent') = 1
              /\ sent'[1].data = Terminated(Mailbox(chat_members, sender_info'[2]))
              /\ Mailbox(chat_members', sender_info'[2]) = <<>>
        /\ (fate = "in_flight" /\ fate' = "dropped")
           => /\ chat_members' = chat_members
              /\ sent' = sent
              /\ received' = received
              /\ lost' = lost \o sent
        /\ sent' # sent => (fate # "in_flight" /\ fate' = "in_flight")
        /\ received' # received
           => (fate = "in_flight" /\ fate' = "delivered" /\ received' = received \o sent)
        /\ IsPrefix(lost, lost') ]_vars

\* A response that carried a notification to a member was lost; the member polled
\* again and received an empty response; no response that reached it carried a
\* notification, and nothing is queued for it.
C20_Witness ==
    LET p == sender_info[2]
    IN  /\ Code(message) = POLL
        /\ p \in Ports_of(chat_members)
        /\ fate = "delivered"
        /\ sent[1].data = EMPTY
        /\ LinesTo(lost, p) # <<>>
        /\ LinesTo(received, p) = <<>>
        /\ Mailbox(chat_members, p) = <<>>

====
